---- MODULE Spec2Model ----
(***************************************************************************)
(* Model of rdcw-slipverify-sdk (src/src/index.ts): the BankSlipValidator  *)
(* utilities (checkBankAccount, isOldSlip, validateSlip) and the           *)
(* SlipVerifySDK entry points (readQRCode, inquiry, verifySlip,            *)
(* verifySlipFromImage).                                                   *)
(*                                                                         *)
(* JavaScript strings are sequences of one-character strings, so that      *)
(* replace(/-/g, ""), indexing, date parsing and !== act on characters.    *)
(***************************************************************************)
EXTENDS Integers, Sequences, FiniteSets, TLC

VARIABLES
    pc,               \* position of the caller / of the async entry point
    imageData,        \* argument of verifySlipFromImage
    payload,          \* argument of inquiry (given, or decoded from the image)
    sent,             \* requests received by POST /v1/inquiry, in order
    log,              \* what each finished entry-point call settled with
    promise,          \* the promise of the running entry-point call
    response,         \* how POST /v1/inquiry answered the running call
    result,           \* validateSlip: result
    expectedAccount,  \* validateSlip / checkBankAccount: expectedAccount
    expectedBank,     \* validateSlip: expectedBank
    expectedAmount,   \* validateSlipWithPromptParse: expectedAmount
    now,              \* the caller's clock, read by new Date()
    timeZone,         \* the local time zone of the caller's process
    outcome,          \* what validateSlip did: returned value or thrown error
    actualAccount,    \* checkBankAccount: actualAccount
    transDate,        \* isOldSlip: transDate
    transTime,        \* isOldSlip: transTime
    ret               \* return value of checkBankAccount / isOldSlip

vars == <<pc, imageData, payload, sent, log, promise, response, result, expectedAccount,
          expectedBank, expectedAmount, now, timeZone, outcome, actualAccount, transDate, transTime,
          ret>>

(***************************************************************************)
(* Bounds of the model.                                                    *)
(***************************************************************************)
\* longest account string enumerated exhaustively for checkBankAccount
MaxAccountLen == 4

\* isOldSlip is tried on the days 2024-02-27 + 0..MaxDayOffset
MaxDayOffset == 3

\* entry-point calls made one after the other on one SlipVerifySDK
MaxCalls == 2

\* largest image input, in bytes or in base64 characters
MaxImageSize == 16

\* most complete tagged fields in a payload put together for crossValidate
MaxFields == 2

\* longest payload enumerated exhaustively for parseTags
MaxPayloadLen == 9

(***************************************************************************)
(* Strings.                                                                *)
(***************************************************************************)
Digits == {"0", "1", "2", "3", "4", "5", "6", "7", "8", "9"}

DigitValue(c) ==
    CASE c = "0" -> 0 [] c = "1" -> 1 [] c = "2" -> 2 [] c = "3" -> 3
      [] c = "4" -> 4 [] c = "5" -> 5 [] c = "6" -> 6 [] c = "7" -> 7
      [] c = "8" -> 8 [] c = "9" -> 9

\* every string over alphabet of length at most n
StringsUpTo(alphabet, n) == UNION {[1..k -> alphabet] : k \in 0..n}

\* a value that is not there (undefined) and a placeholder for unused state
None == <<"none">>

(***************************************************************************)
(* Promises and responses of the entry points (defined here for the        *)
(* initial states of every specification).                                 *)
(***************************************************************************)
Pending == [state |-> "pending", value |-> None, reason |-> <<>>]

Fulfilled(v) == [state |-> "fulfilled", value |-> v, reason |-> <<>>]

Rejected(why) == [state |-> "rejected", value |-> None, reason |-> why]

\* no call is running
NoPromise == [op |-> "none", settled |-> Pending]

\* post has not answered
NoResponse ==
    [kind |-> "none", hasValid |-> FALSE,
     r |-> [valid |-> FALSE, isCached |-> FALSE, data |-> <<>>]]

(***************************************************************************)
(* BankSlipValidator.isNumeric: !isNaN(Number(str)) && !isNaN(parseFloat(  *)
(* str)) on the one-character strings cleanExpected[i].  Number() maps     *)
(* white space to 0 where parseFloat() gives NaN; both give the digit's    *)
(* value on a decimal digit and NaN on every other character.              *)
(***************************************************************************)
NumberIsNaN(str) == str \notin (Digits \cup {" "})

ParseFloatIsNaN(str) == str \notin Digits

isNumeric(str) == ~NumberIsNaN(str) /\ ~ParseFloatIsNaN(str)

(***************************************************************************)
(* BankSlipValidator.checkBankAccount.                                     *)
(***************************************************************************)
\* str.replace(/-/g, "")
IsNotDash(c) == c # "-"

RemoveDashes(str) == SelectSeq(str, IsNotDash)

\* the for loop of lines 108-112, from index i (1-based) with the counter at n
RECURSIVE MatchingDigitsFrom(_, _, _, _)
MatchingDigitsFrom(cleanExpected, cleanActual, i, n) ==
    IF i > Len(cleanExpected) THEN n
    ELSE IF ~isNumeric(cleanExpected[i])
         THEN MatchingDigitsFrom(cleanExpected, cleanActual, i + 1, n)
    ELSE IF cleanExpected[i] # cleanActual[i]
         THEN MatchingDigitsFrom(cleanExpected, cleanActual, i + 1, n)
    ELSE MatchingDigitsFrom(cleanExpected, cleanActual, i + 1, n + 1)

MinMatchingDigits == 3

\* checkBankAccount counting the matches of every position, masked or not
checkBankAccountAnyChar(expected, actual) ==
    LET cleanExpected == RemoveDashes(expected)
        cleanActual   == RemoveDashes(actual)
    IN  IF Len(cleanExpected) # Len(cleanActual) THEN FALSE
        ELSE Cardinality({i \in 1..Len(cleanExpected) : cleanExpected[i] = cleanActual[i]})
                 >= MinMatchingDigits

\* checkBankAccount taking a masked position of the expected account as a match
checkBankAccountMaskMatches(expected, actual) ==
    LET cleanExpected == RemoveDashes(expected)
        cleanActual   == RemoveDashes(actual)
    IN  IF Len(cleanExpected) # Len(cleanActual) THEN FALSE
        ELSE Cardinality({i \in 1..Len(cleanExpected) :
                             \/ ~isNumeric(cleanExpected[i])
                             \/ cleanExpected[i] = cleanActual[i]})
                 >= MinMatchingDigits

\* checkBankAccount satisfied with two matching digits
checkBankAccountTwoDigits(expected, actual) ==
    LET cleanExpected == RemoveDashes(expected)
        cleanActual   == RemoveDashes(actual)
    IN  IF Len(cleanExpected) # Len(cleanActual) THEN FALSE
        ELSE MatchingDigitsFrom(cleanExpected, cleanActual, 1, 0) >= MinMatchingDigits - 1

checkBankAccount(expected, actual) ==
    LET cleanExpected == RemoveDashes(expected)
        cleanActual   == RemoveDashes(actual)
    IN  IF Len(cleanExpected) # Len(cleanActual) THEN FALSE
        ELSE MatchingDigitsFrom(cleanExpected, cleanActual, 1, 0) >= MinMatchingDigits

(***************************************************************************)
(* Dates.  A Date is [valid, t]: t is the instant, in seconds on an axis   *)
(* that agrees with local time before the zone's offset change; an Invalid *)
(* Date has valid = FALSE.  The transaction time has no milliseconds, so   *)
(* comparing whole seconds with the clock's whole seconds decides isAfter  *)
(* exactly as milliseconds do.                                             *)
(*                                                                         *)
(* A time zone is [at, shift]: from the instant at on, local time is the   *)
(* instant plus shift seconds (shift = 0: a fixed offset to UTC).  The     *)
(* Date constructor and setDate work on local time, getTime and isAfter on *)
(* instants.                                                               *)
(***************************************************************************)
SecondsPerMinute == 60

SecondsPerHour == 3600

SecondsPerDay == 86400

InvalidDate == [valid |-> FALSE, t |-> 0]

IsLeapYear(y) == (y % 4 = 0 /\ y % 100 # 0) \/ y % 400 = 0

DaysInMonth(y, m) ==
    IF m = 2 THEN (IF IsLeapYear(y) THEN 29 ELSE 28)
    ELSE IF m \in {4, 6, 9, 11} THEN 30 ELSE 31

\* days from 0001-01-01 to y-01-01
DaysBeforeYear(y) ==
    365 * (y - 1) + ((y - 1) \div 4) - ((y - 1) \div 100) + ((y - 1) \div 400)

\* the day local time is counted from: 2023-01-01
Epoch == DaysBeforeYear(2023)

RECURSIVE DaysBeforeMonth(_, _)
DaysBeforeMonth(y, m) ==
    IF m <= 1 THEN 0 ELSE DaysBeforeMonth(y, m - 1) + DaysInMonth(y, m - 1)

\* seconds of local time from Epoch to the local date and time given
LocalTime(y, m, d, h, mi, s) ==
    (DaysBeforeYear(y) - Epoch + DaysBeforeMonth(y, m) + (d - 1))
        * SecondsPerDay
    + h * SecondsPerHour + mi * SecondsPerMinute + s

\* the local time a Date's getters show for instant t
ToLocal(zone, t) == IF t >= zone.at THEN t + zone.shift ELSE t

\* the instant of a local time; a local time that occurs twice, or never, is
\* read with the offset in force before the change
ToInstant(zone, local) ==
    IF local < zone.at THEN local
    ELSE IF local - zone.shift >= zone.at THEN local - zone.shift
    ELSE local

\* new Date(year, monthIndex, day, hours, minutes, seconds)
NewDate(zone, y, m, d, h, mi, s) ==
    [valid |-> TRUE, t |-> ToInstant(zone, LocalTime(y, m, d, h, mi, s))]

\* subDays moving the instant back by 24 hours for each day
subDaysAs24Hours(zone, date, amount) ==
    IF date.valid THEN [valid |-> TRUE, t |-> date.t - amount * 24 * SecondsPerHour]
    ELSE InvalidDate

\* date-fns subDays(date, amount): setDate(getDate() - amount), on local time
subDays(zone, date, amount) ==
    IF date.valid
    THEN [valid |-> TRUE,
          t |-> ToInstant(zone, ToLocal(zone, date.t) - amount * SecondsPerDay)]
    ELSE InvalidDate

\* a zone without daylight saving, such as Asia/Bangkok
FixedOffset == [at |-> 0, shift |-> 0]

\* America/New_York, where 2024-11-03 02:00 daylight time is 01:00 standard time
NewYork == [at |-> LocalTime(2024, 11, 3, 2, 0, 0), shift |-> 0 - SecondsPerHour]

Zones == {FixedOffset, NewYork}

\* isAfter taken for "after or at the same time"
isAfterOrEqual(date, dateToCompare) ==
    date.valid /\ dateToCompare.valid /\ date.t >= dateToCompare.t

\* date-fns isAfter(date, dateToCompare): a comparison with NaN is false
isAfter(date, dateToCompare) ==
    date.valid /\ dateToCompare.valid /\ date.t > dateToCompare.t

(***************************************************************************)
(* date-fns parse(dateString, formatString, referenceDate) for the two     *)
(* format strings the validator uses.  A numeric token of n letters takes  *)
(* the longest run of 1..n digits, a literal has to match, each field is   *)
(* range-checked, and what is left of the input may only be white space.   *)
(***************************************************************************)
RECURSIVE DigitRun(_, _)
DigitRun(str, n) ==
    IF n = 0 \/ str = <<>> \/ Head(str) \notin Digits THEN 0
    ELSE 1 + DigitRun(Tail(str), n - 1)

RECURSIVE Numeral(_)
Numeral(digits) ==
    IF digits = <<>> THEN 0
    ELSE 10 * Numeral(SubSeq(digits, 1, Len(digits) - 1)) + DigitValue(digits[Len(digits)])

parseNDigits(n, str) ==
    LET k == DigitRun(str, n)
    IN  [ok    |-> k > 0,
         value |-> Numeral(SubSeq(str, 1, k)),
         rest  |-> SubSeq(str, k + 1, Len(str))]

parseLiteral(c, str) ==
    [ok   |-> str # <<>> /\ Head(str) = c,
     rest |-> IF str = <<>> THEN <<>> ELSE Tail(str)]

OnlyWhitespace(str) == \A i \in 1..Len(str) : str[i] = " "

NoFields == [valid |-> FALSE, a |-> 0, b |-> 0, c |-> 0]

\* parse(str, "yyyyMMdd", new Date()): a = full year, b = month 1..12, c = day
ParseDate(str) ==
    LET y == parseNDigits(4, str)
        m == parseNDigits(2, y.rest)
        d == parseNDigits(2, m.rest)
    IN  IF /\ y.ok /\ m.ok /\ d.ok
           /\ OnlyWhitespace(d.rest)
           /\ y.value > 0
           /\ m.value \in 1..12
           /\ d.value >= 1
           /\ d.value <= DaysInMonth(y.value, m.value)
        THEN [valid |-> TRUE, a |-> y.value, b |-> m.value, c |-> d.value]
        ELSE NoFields

\* parse(str, "HH:mm:ss", new Date()): a = hours, b = minutes, c = seconds
ParseTime(str) ==
    LET h  == parseNDigits(2, str)
        c1 == parseLiteral(":", h.rest)
        mi == parseNDigits(2, c1.rest)
        c2 == parseLiteral(":", mi.rest)
        s  == parseNDigits(2, c2.rest)
    IN  IF /\ h.ok /\ c1.ok /\ mi.ok /\ c2.ok /\ s.ok
           /\ OnlyWhitespace(s.rest)
           /\ h.value \in 0..23
           /\ mi.value \in 0..59
           /\ s.value \in 0..59
        THEN [valid |-> TRUE, a |-> h.value, b |-> mi.value, c |-> s.value]
        ELSE NoFields

\* a JavaScript value that is a string (not undefined, not null)
Null == <<"null">>

IsString(v) == v # None /\ v # Null

(***************************************************************************)
(* BankSlipValidator.isOldSlip, with what new Date() reads as an argument: *)
(* clock = [t, zone], the instant and the time zone of the process.  On a  *)
(* value that is no string parse either throws, which the catch turns into *)
(* true, or gives an Invalid Date, which is not after anything: both       *)
(* builds of the library answer true.                                      *)
(***************************************************************************)
Clock(t, zone) == [t |-> t, zone |-> zone]

\* isOldSlip that also refuses a slip stamped after the clock
isOldSlipRefusesFuture(date8, time8, clock) ==
    IF ~IsString(date8) \/ ~IsString(time8) THEN TRUE
    ELSE
        LET date == ParseDate(date8)
            time == ParseTime(time8)
            transactionDateTime ==
                IF date.valid /\ time.valid
                THEN NewDate(clock.zone, date.a, date.b, date.c, time.a, time.b, time.c)
                ELSE InvalidDate
            oneDayAgo == subDays(clock.zone, [valid |-> TRUE, t |-> clock.t], 1)
        IN  \/ ~isAfter(transactionDateTime, oneDayAgo)
            \/ isAfter(transactionDateTime, [valid |-> TRUE, t |-> clock.t])

isOldSlip(date8, time8, clock) ==
    IF ~IsString(date8) \/ ~IsString(time8) THEN TRUE
    ELSE
        LET date == ParseDate(date8)
            time == ParseTime(time8)
            transactionDateTime ==
                IF date.valid /\ time.valid
                THEN NewDate(clock.zone, date.a, date.b, date.c, time.a, time.b, time.c)
                ELSE InvalidDate
            oneDayAgo == subDays(clock.zone, [valid |-> TRUE, t |-> clock.t], 1)
        IN  ~isAfter(transactionDateTime, oneDayAgo)

(***************************************************************************)
(* SpecMatch: checkBankAccount applied to every pair of account strings.   *)
(***************************************************************************)
AccountAlphabet == {"1", "2", "X", "-"}

\* the account strings of the documentation and of the examples
ExampleAccounts ==
    { <<"1","2","3","4","5","6","7","8","9","0">>,
      <<"X","X","X","-","X","X","X","-","1","2","3","4">>,
      <<"0","0","0","0","0","0","1","2","3","4">>,
      <<"1","2">>, <<"1","2","3">>, <<"0","0","0">>, <<"1","1","1">>,
      <<" "," "," ">> }

AccountStrings == StringsUpTo(AccountAlphabet, MaxAccountLen) \cup ExampleAccounts

InitMatch ==
    /\ pc = "checkBankAccount"
    /\ expectedAccount \in AccountStrings
    /\ actualAccount \in AccountStrings
    /\ ret = None
    /\ imageData = None /\ payload = None /\ sent = <<>> /\ log = <<>>
    /\ promise = NoPromise /\ response = NoResponse /\ result = None
    /\ expectedBank = None /\ expectedAmount = None /\ now = 0 /\ timeZone = FixedOffset
    /\ outcome = None /\ transDate = None /\ transTime = None

CallCheckBankAccount ==
    /\ pc = "checkBankAccount"
    /\ ret' = checkBankAccount(expectedAccount, actualAccount)
    /\ pc' = "doneMatch"
    /\ UNCHANGED <<imageData, payload, sent, log, promise, response, result, expectedAccount,
                   expectedBank, expectedAmount, now, timeZone, outcome, actualAccount, transDate, transTime>>

NextMatch == CallCheckBankAccount

SpecMatch == InitMatch /\ [][NextMatch]_vars

(***************************************************************************)
(* C5.  Fuzzy account match: checkBankAccount(expected, actual) is true    *)
(* if and only if, with every '-' removed from both, the two strings have  *)
(* equal length and at least 3 positions hold a decimal digit of expected  *)
(* that actual repeats; the four documented examples come out as stated.   *)
(***************************************************************************)
MatchingPositions(e, a) ==
    {i \in 1..Len(e) : e[i] \in Digits /\ i <= Len(a) /\ e[i] = a[i]}

C5_FuzzyMatch ==
    pc = "doneMatch" =>
        LET e == RemoveDashes(expectedAccount)
            a == RemoveDashes(actualAccount)
        IN  /\ ret = (Len(e) = Len(a) /\ Cardinality(MatchingPositions(e, a)) >= 3)
            /\ (/\ expectedAccount = <<"1","2","3","4","5","6","7","8","9","0">>
                /\ actualAccount = expectedAccount) => ret = TRUE
            /\ (/\ expectedAccount = <<"X","X","X","-","X","X","X","-","1","2","3","4">>
                /\ actualAccount = <<"0","0","0","0","0","0","1","2","3","4">>) => ret = TRUE
            /\ (expectedAccount = <<"1","2">> /\ actualAccount = <<"1","2","3">>)
                   => ret = FALSE
            /\ (expectedAccount = <<"0","0","0">> /\ actualAccount = <<"1","1","1">>)
                   => ret = FALSE

\* a masked expected account matched on exactly three revealed digits
C5_Witness ==
    /\ pc = "doneMatch"
    /\ expectedAccount = <<"X","1","2","1">>
    /\ actualAccount = <<"2","1","2","1">>
    /\ ret = TRUE

(***************************************************************************)
(* C14.  checkBankAccount is symmetric in its two arguments: what it       *)
(* returns for (expected, actual) is what it returns for the two accounts  *)
(* exchanged, masked positions on either side included.                    *)
(***************************************************************************)
C14_Symmetric ==
    pc = "doneMatch" =>
        ret = checkBankAccount(actualAccount, expectedAccount)

\* the mask is in the actual account: three digits match in either order
C14_Witness ==
    /\ pc = "doneMatch"
    /\ expectedAccount = <<"1","2","1","2">>
    /\ actualAccount = <<"X","2","1","2">>
    /\ ret = TRUE

(***************************************************************************)
(* SpecFresh: isOldSlip applied to the date and time a process writes for  *)
(* an instant (YYYYMMDD, HH:mm:ss), and to malformed ones, under clocks of *)
(* the days around 2024-11-03, in a zone with and a zone without a         *)
(* daylight-saving change on that day.                                     *)
(***************************************************************************)
DigitChar(i) == CHOOSE c \in Digits : DigitValue(c) = i

Pad2(n) == <<DigitChar(n \div 10), DigitChar(n % 10)>>

Pad4(n) == Pad2(n \div 100) \o Pad2(n % 100)

FormatDate(y, m, d) == Pad4(y) \o Pad2(m) \o Pad2(d)

FormatTime(h, mi, s) == Pad2(h) \o <<":">> \o Pad2(mi) \o <<":">> \o Pad2(s)

\* the first instant of the days tried: 2024-10-31 00:00:00
WindowStart == LocalTime(2024, 10, 31, 0, 0, 0)

\* the day k days after 2024-10-31, written YYYYMMDD
DateAt(k) == IF k = 0 THEN FormatDate(2024, 10, 31) ELSE FormatDate(2024, 11, k)

\* second of the day
TimeOfDay(h, mi, s) == h * SecondsPerHour + mi * SecondsPerMinute + s

\* the instant tod seconds into the k-th day after WindowStart
ClockAt(k, tod) == WindowStart + k * SecondsPerDay + tod

\* the date and the time a process in zone writes for instant t
WrittenDate(zone, t) == DateAt((ToLocal(zone, t) - WindowStart) \div SecondsPerDay)

WrittenTime(zone, t) ==
    LET tod == (ToLocal(zone, t) - WindowStart) % SecondsPerDay
    IN  FormatTime(tod \div SecondsPerHour,
                   (tod % SecondsPerHour) \div SecondsPerMinute,
                   tod % SecondsPerMinute)

SlipHours == {0, 12, 23}

SlipMinutes == {0, 59}

SlipSeconds == {0, 1, 59}

SlipInstants ==
    {ClockAt(k, TimeOfDay(h, mi, s)) :
        k \in 0..MaxDayOffset, h \in SlipHours, mi \in SlipMinutes, s \in SlipSeconds}

ClockTimes == {TimeOfDay(0, 0, 0), TimeOfDay(12, 0, 0), TimeOfDay(12, 0, 1),
               TimeOfDay(23, 59, 59)}

UnparsableDates ==
    { <<"n","o","t","a","d","a","t","e">>, <<>>,
      <<"2","0","2","4","0","2","3","0">>,
      <<"2","0","2","4","1","3","0","1">>,
      <<"2","0","2","4","-","1","1","-","0","2">>,
      <<"2","0","2","4","1","1","0","2","1">> }

UnparsableTimes ==
    { <<"n","o","t","a","t","i","m","e">>, <<>>,
      <<"2","4",":","0","0",":","0","0">>,
      <<"1","2",":","6","0",":","0","0">>,
      <<"1","2",":","0","0">>,
      <<"1","2","0","0","0","0">> }

Clocks == {ClockAt(k, tod) : k \in 1..MaxDayOffset, tod \in ClockTimes}

\* dates months and decades after every clock tried
FarFutureDates == {FormatDate(2025, 2, 28), FormatDate(2050, 12, 31)}

InitFresh ==
    /\ pc = "isOldSlip"
    /\ timeZone \in Zones
    /\ now \in Clocks
    /\ \E t \in SlipInstants :
          /\ transDate \in {WrittenDate(timeZone, t)} \cup UnparsableDates \cup {None}
                              \cup FarFutureDates
          /\ transTime \in {WrittenTime(timeZone, t)} \cup UnparsableTimes \cup {None}
    /\ ret = None
    /\ imageData = None /\ payload = None /\ sent = <<>> /\ log = <<>>
    /\ promise = NoPromise /\ response = NoResponse /\ result = None /\ expectedAccount = None
    /\ expectedBank = None /\ expectedAmount = None /\ outcome = None /\ actualAccount = None

CallIsOldSlip ==
    /\ pc = "isOldSlip"
    /\ ret' = isOldSlip(transDate, transTime, Clock(now, timeZone))
    /\ pc' = "doneOld"
    /\ UNCHANGED <<imageData, payload, sent, log, promise, response, result, expectedAccount,
                   expectedBank, expectedAmount, now, timeZone, outcome, actualAccount, transDate, transTime>>

NextFresh == CallIsOldSlip

SpecFresh == InitFresh /\ [][NextFresh]_vars

(***************************************************************************)
(* C6, as claimed.  isOldSlip answers false exactly when the instant that  *)
(* transDate and transTime write is strictly after the clock minus 24      *)
(* hours.                                                                  *)
(***************************************************************************)
C6_FreshWithin24Hours ==
    pc = "doneOld" =>
        \A t \in SlipInstants :
            (transDate = WrittenDate(timeZone, t) /\ transTime = WrittenTime(timeZone, t))
                => (ret = FALSE <=> t > now - 24 * SecondsPerHour)

(***************************************************************************)
(* C6, amended.  isOldSlip answers false exactly when the local date and   *)
(* time that transDate and transTime write is strictly after the clock's   *)
(* local date and time one calendar day earlier, which is the clock minus  *)
(* 24 hours where the zone's offset does not change in between (so there a *)
(* slip of exactly 24 hours ago is expired and one of right now is not);   *)
(* it answers true, without raising, on a date or a time that cannot be    *)
(* parsed.                                                                 *)
(***************************************************************************)
C6_FreshWithinOneDay ==
    pc = "doneOld" =>
        /\ ret \in BOOLEAN
        /\ \A t \in SlipInstants :
              (transDate = WrittenDate(timeZone, t) /\ transTime = WrittenTime(timeZone, t))
                  => /\ ret = FALSE <=>
                            ToLocal(timeZone, t) > ToLocal(timeZone, now) - SecondsPerDay
                     /\ timeZone = FixedOffset =>
                            (ret = FALSE <=> t > now - 24 * SecondsPerHour)
        /\ (transDate \in UnparsableDates \cup {None}
               \/ transTime \in UnparsableTimes \cup {None}) => ret = TRUE

\* without daylight saving, a slip stamped exactly 24 hours before the clock is expired
C6_Witness ==
    /\ pc = "doneOld"
    /\ timeZone = FixedOffset
    /\ now = ClockAt(3, TimeOfDay(12, 0, 1))
    /\ transDate = WrittenDate(timeZone, now - 24 * SecondsPerHour)
    /\ transTime = WrittenTime(timeZone, now - 24 * SecondsPerHour)
    /\ ret = TRUE

\* on the 25-hour day, a slip stamped exactly 24 hours before the clock is not expired
C6_WitnessLongDay ==
    /\ pc = "doneOld"
    /\ timeZone = NewYork
    /\ now = ClockAt(3, TimeOfDay(12, 0, 1))
    /\ transDate = WrittenDate(timeZone, now - 24 * SecondsPerHour)
    /\ transTime = WrittenTime(timeZone, now - 24 * SecondsPerHour)
    /\ ret = FALSE

(***************************************************************************)
(* BankSlipValidator.validateSlip.  What a call does is recorded as        *)
(*   threw    - it raised (a TypeError on reading a field of undefined or  *)
(*              on calling replace on a value that has none),              *)
(*   isValid, error - the BankValidationResult it returned otherwise,      *)
(*   checks   - the checks it evaluated, in order,                         *)
(*   readData - whether it dereferenced result.data.                       *)
(* A result is [valid, isCached, data]; data, data.receiver and            *)
(* data.receiver.account carry present = FALSE where the response body     *)
(* has no such field.                                                      *)
(***************************************************************************)
NoError == "undefined"

Returned(ok, err, checks, readData) ==
    [threw |-> FALSE, isValid |-> ok, error |-> err, checks |-> checks,
     readData |-> readData]

Threw(checks) ==
    [threw |-> TRUE, isValid |-> FALSE, error |-> "TypeError", checks |-> checks,
     readData |-> TRUE]

\* !receiverAccount
Falsy(v) == v = None \/ v = Null \/ v = <<>>

\* lines 205-213: the bank check and the success behind it
validateBankSkipped(r, expected, bank, clock) ==
    Returned(TRUE, NoError,
             <<"validity", "replay", "freshness", "account">>, TRUE)

validateBank(r, expected, bank, clock) ==
    IF r.data.receivingBank # bank
    THEN Returned(FALSE, "Invalid bank",
                  <<"validity", "replay", "freshness", "account", "bank">>, TRUE)
    ELSE Returned(TRUE, NoError,
                  <<"validity", "replay", "freshness", "account", "bank">>, TRUE)

\* lines 193-203: the account check
validateAccount(r, expected, bank, clock) ==
    IF ~r.data.receiver.present \/ ~r.data.receiver.account.present
    THEN Threw(<<"validity", "replay", "freshness">>)
    ELSE IF \/ Falsy(r.data.receiver.account.value)
            \/ ~checkBankAccount(expected, r.data.receiver.account.value)
    THEN Returned(FALSE, "Invalid account number",
                  <<"validity", "replay", "freshness", "account">>, TRUE)
    ELSE validateBank(r, expected, bank, clock)

\* lines 185-191: the freshness check
validateFreshness(r, expected, bank, clock) ==
    IF ~r.data.present
    THEN Threw(<<"validity", "replay">>)
    ELSE IF isOldSlip(r.data.transDate, r.data.transTime, clock)
    THEN Returned(FALSE, "This slip has expired",
                  <<"validity", "replay", "freshness">>, TRUE)
    ELSE validateAccount(r, expected, bank, clock)

\* validateSlip asking for the replay flag before the validity flag
validateSlipReplayFirst(r, expected, bank, clock) ==
    IF r.isCached
    THEN Returned(FALSE, "This slip has already been used", <<"replay">>, FALSE)
    ELSE IF ~r.valid
    THEN Returned(FALSE, "Invalid slip", <<"replay", "validity">>, FALSE)
    ELSE validateFreshness(r, expected, bank, clock)

\* validateSlip without the replay check
validateSlipNoReplay(r, expected, bank, clock) ==
    IF ~r.valid
    THEN Returned(FALSE, "Invalid slip", <<"validity">>, FALSE)
    ELSE validateFreshness(r, expected, bank, clock)

\* validateSlip taking transDate and transTime out of result.data up front
validateSlipReadsDataFirst(r, expected, bank, clock) ==
    IF ~r.data.present
    THEN Threw(<<>>)
    ELSE IF ~r.valid
    THEN Returned(FALSE, "Invalid slip", <<"validity">>, TRUE)
    ELSE IF r.isCached
    THEN Returned(FALSE, "This slip has already been used",
                  <<"validity", "replay">>, TRUE)
    ELSE validateFreshness(r, expected, bank, clock)

\* lines 164-183: the validity and replay checks, then the rest of the chain
validateSlip(r, expected, bank, clock) ==
    IF ~r.valid
    THEN Returned(FALSE, "Invalid slip", <<"validity">>, FALSE)
    ELSE IF r.isCached
    THEN Returned(FALSE, "This slip has already been used",
                  <<"validity", "replay">>, FALSE)
    ELSE validateFreshness(r, expected, bank, clock)

(***************************************************************************)
(* SpecValidate: validateSlip applied to every result of a family that     *)
(* varies each field the checks read, with each expectation and clock.     *)
(***************************************************************************)
Account(v) == [present |-> TRUE, value |-> v]

NoAccount == [present |-> FALSE, value |-> None]

Receiver(acc) == [present |-> TRUE, account |-> acc]

NoReceiver == [present |-> FALSE, account |-> NoAccount]

NoData ==
    [present |-> FALSE, transDate |-> None, transTime |-> None,
     receiver |-> NoReceiver, receivingBank |-> None]

AccountValues ==
    { Null, None, <<>>,
      <<"1","2","3","-","4">>, <<"X","2","3","4">>, <<"1","2","9","9">> }

Receivers ==
    {NoReceiver, Receiver(NoAccount)} \cup {Receiver(Account(v)) : v \in AccountValues}

BankCodes == { <<"0","1","4">>, <<"0","0","4">>, <<"1","4">>, None }

DataRecords ==
    { [present |-> TRUE, transDate |-> d, transTime |-> t, receiver |-> rc,
       receivingBank |-> b] :
        d \in {DateAt(1), DateAt(2), <<"n","o","t","a","d","a","t","e">>, None},
        t \in {FormatTime(12, 0, 0), FormatTime(12, 0, 1)},
        rc \in Receivers,
        b \in BankCodes }

Results ==
    { [valid |-> v, isCached |-> c, data |-> d] :
        v \in BOOLEAN, c \in BOOLEAN, d \in DataRecords \cup {NoData} }

ExpectedAccounts == { <<"1","2","3","4">>, <<"X","2","3","4">>, <<"1","2">> }

ExpectedBanks == { <<"0","1","4">>, <<"0","0","4">> }

ValidateClocks == {ClockAt(2, TimeOfDay(12, 0, 0)), ClockAt(2, TimeOfDay(12, 0, 1))}

InitValidate ==
    /\ pc = "validateSlip"
    /\ result \in Results
    /\ expectedAccount \in ExpectedAccounts
    /\ expectedBank \in ExpectedBanks
    /\ expectedAmount = None
    /\ now \in ValidateClocks
    /\ timeZone = FixedOffset
    /\ outcome = None
    /\ imageData = None /\ payload = None /\ sent = <<>> /\ log = <<>>
    /\ promise = NoPromise /\ response = NoResponse /\ actualAccount = None /\ transDate = None
    /\ transTime = None /\ ret = None

CallValidateSlip ==
    /\ pc = "validateSlip"
    /\ outcome' = validateSlip(result, expectedAccount, expectedBank, Clock(now, timeZone))
    /\ pc' = "doneValidate"
    /\ UNCHANGED <<imageData, payload, sent, log, promise, response, result, expectedAccount,
                   expectedBank, expectedAmount, now, timeZone, actualAccount, transDate, transTime, ret>>

NextValidate == CallValidateSlip

SpecValidate == InitValidate /\ [][NextValidate]_vars

(***************************************************************************)
(* The five checks stated on their own, for the claims about the chain.    *)
(* A check that reads a field the result does not have neither passes nor  *)
(* fails.                                                                  *)
(***************************************************************************)
CheckOrder == <<"validity", "replay", "freshness", "account", "bank">>

Reason(k) ==
    CASE k = 1 -> "Invalid slip"
      [] k = 2 -> "This slip has already been used"
      [] k = 3 -> "This slip has expired"
      [] k = 4 -> "Invalid account number"
      [] k = 5 -> "Invalid bank"

HasAccount(r) == r.data.present /\ r.data.receiver.present /\ r.data.receiver.account.present

SameString(a, b) ==
    /\ IsString(a) /\ IsString(b)
    /\ Len(a) = Len(b)
    /\ \A i \in 1..Len(a) : a[i] = b[i]

IsFresh(r, clock) == r.data.present /\ ~isOldSlip(r.data.transDate, r.data.transTime, clock)

AccountMatches(r, expected) ==
    /\ HasAccount(r)
    /\ IsString(r.data.receiver.account.value)
    /\ r.data.receiver.account.value # <<>>
    /\ checkBankAccount(expected, r.data.receiver.account.value)

BankMatches(r, bank) == r.data.present /\ SameString(r.data.receivingBank, bank)

FailingChecks(r, expected, bank, clock) ==
    {k \in 1..5 :
        \/ k = 1 /\ ~r.valid
        \/ k = 2 /\ r.isCached
        \/ k = 3 /\ r.data.present /\ ~IsFresh(r, clock)
        \/ k = 4 /\ HasAccount(r) /\ ~AccountMatches(r, expected)
        \/ k = 5 /\ r.data.present /\ ~BankMatches(r, bank)}

Lowest(S) == CHOOSE k \in S : \A j \in S : k <= j

(***************************************************************************)
(* C1.  validateSlip evaluates validity, replay, freshness, account, bank  *)
(* in this order and reports the reason of the first check that fails,     *)
(* whatever the later checks would say; a result that is both invalid and  *)
(* cached yields "Invalid slip".                                           *)
(***************************************************************************)
C1_FirstFailingCheck ==
    pc = "doneValidate" =>
        LET failing == FailingChecks(result, expectedAccount, expectedBank, Clock(now, timeZone))
        IN  /\ outcome.checks = SubSeq(CheckOrder, 1, Len(outcome.checks))
            /\ (~outcome.threw /\ ~outcome.isValid) =>
                   /\ failing # {}
                   /\ outcome.error = Reason(Lowest(failing))
                   /\ Len(outcome.checks) = Lowest(failing)
            /\ (failing # {} /\ (Lowest(failing) <= 2 \/ HasAccount(result))) =>
                   /\ ~outcome.threw /\ ~outcome.isValid
                   /\ outcome.error = Reason(Lowest(failing))
            /\ (~result.valid /\ result.isCached) => outcome.error = "Invalid slip"

\* an invalid, cached slip with stale data, a wrong account and a wrong bank
C1_Witness ==
    /\ pc = "doneValidate"
    /\ FailingChecks(result, expectedAccount, expectedBank, Clock(now, timeZone)) = 1..5
    /\ ~outcome.threw
    /\ outcome.error = "Invalid slip"

(***************************************************************************)
(* C2.  Replay protection: a result with isCached = true is never          *)
(* validated, whatever its other fields and the caller's expectations.     *)
(***************************************************************************)
C2_ReplayProtection ==
    (pc = "doneValidate" /\ result.isCached) =>
        /\ ~outcome.threw
        /\ outcome.isValid = FALSE

\* a cached slip that passes every other check
C2_Witness ==
    /\ pc = "doneValidate"
    /\ FailingChecks(result, expectedAccount, expectedBank, Clock(now, timeZone)) = {2}
    /\ HasAccount(result)
    /\ ~outcome.threw
    /\ outcome.isValid = FALSE

(***************************************************************************)
(* C3.  A result with valid = false short-circuits the chain: validateSlip *)
(* returns isValid = false with "Invalid slip", evaluates no other check   *)
(* and does not read result.data, so the outcome is the same when data or  *)
(* its nested fields are absent.                                           *)
(***************************************************************************)
C3_InvalidShortCircuits ==
    (pc = "doneValidate" /\ ~result.valid) =>
        outcome = [threw |-> FALSE, isValid |-> FALSE, error |-> "Invalid slip",
                   checks |-> <<"validity">>, readData |-> FALSE]

\* an invalid result without data
C3_Witness ==
    /\ pc = "doneValidate"
    /\ ~result.valid
    /\ ~result.data.present
    /\ ~outcome.threw
    /\ outcome.error = "Invalid slip"

(***************************************************************************)
(* C4.  validateSlip returns success, with no error, if and only if the    *)
(* result is valid, not cached, not expired, carries a non-empty receiver  *)
(* account value that fuzzy-matches expectedAccount, and a receivingBank   *)
(* equal to expectedBank character by character.  With the earlier checks  *)
(* passed, an absent account value is "Invalid account number" and a       *)
(* differing receivingBank is "Invalid bank".                              *)
(***************************************************************************)
C4_SuccessIffAllChecks ==
    pc = "doneValidate" =>
        LET fresh     == IsFresh(result, Clock(now, timeZone))
            accountOk == AccountMatches(result, expectedAccount)
            bankOk    == BankMatches(result, expectedBank)
            early     == result.valid /\ ~result.isCached /\ fresh
        IN  /\ (~outcome.threw /\ outcome.isValid) <=> (early /\ accountOk /\ bankOk)
            /\ (~outcome.threw /\ outcome.isValid) => outcome.error = NoError
            /\ (early /\ HasAccount(result) /\ Falsy(result.data.receiver.account.value)) =>
                   (~outcome.threw /\ ~outcome.isValid
                        /\ outcome.error = "Invalid account number")
            /\ (early /\ accountOk /\ ~bankOk) =>
                   (~outcome.threw /\ ~outcome.isValid /\ outcome.error = "Invalid bank")

\* a fresh slip matched on three digits of a masked account, at the expected bank
C4_Witness ==
    /\ pc = "doneValidate"
    /\ expectedAccount = <<"X","2","3","4">>
    /\ result.data.present
    /\ result.data.receiver.account.value = <<"1","2","3","-","4">>
    /\ ~outcome.threw
    /\ outcome.isValid
    /\ outcome.error = NoError

\* a slip that passes every check but whose bank code lacks the leading zero
C4_WitnessBank ==
    /\ pc = "doneValidate"
    /\ result.data.present
    /\ result.data.receivingBank = <<"1","4">>
    /\ expectedBank = <<"0","1","4">>
    /\ ~outcome.threw
    /\ outcome.error = "Invalid bank"

(***************************************************************************)
(* SpecDated: the dates, times and clocks of SpecFresh, given to isOldSlip *)
(* and to validateSlip on a slip that passes the other checks.             *)
(***************************************************************************)
\* validateSlip on a slip with this date and time that passes the other checks
CallValidateSlipDated ==
    /\ pc = "isOldSlip"
    /\ outcome' = validateSlip(
            [valid |-> TRUE, isCached |-> FALSE,
             data |-> [present |-> TRUE, transDate |-> transDate,
                       transTime |-> transTime,
                       receiver |-> Receiver(Account(<<"1","2","3","-","4">>)),
                       receivingBank |-> <<"0","1","4">>]],
            <<"1","2","3","4">>, <<"0","1","4">>, Clock(now, timeZone))
    /\ pc' = "doneOldValidate"
    /\ UNCHANGED <<imageData, payload, sent, log, promise, response, result, expectedAccount,
                   expectedBank, expectedAmount, now, timeZone, actualAccount, transDate,
                   transTime, ret>>

NextDated ==
    \/ CallIsOldSlip
    \/ CallValidateSlipDated

SpecDated == InitFresh /\ [][NextDated]_vars

(***************************************************************************)
(* C16.  The freshness check has a lower bound only: for a transDate and   *)
(* transTime that parse and write a time after the caller's clock, a       *)
(* second or decades after it, isOldSlip returns false, and validateSlip   *)
(* does not refuse the slip with "This slip has expired".                  *)
(***************************************************************************)
C16_FutureNeverExpired ==
    LET parses == /\ IsString(transDate) /\ transDate \notin UnparsableDates
                  /\ IsString(transTime) /\ transTime \notin UnparsableTimes
        future == \/ transDate \in FarFutureDates
                  \/ \E t \in SlipInstants :
                        /\ transDate = WrittenDate(timeZone, t)
                        /\ transTime = WrittenTime(timeZone, t)
                        /\ t > now
    IN  (parses /\ future) =>
            /\ pc = "doneOld" => ret = FALSE
            /\ pc = "doneOldValidate" =>
                   (~outcome.threw /\ outcome.error # "This slip has expired")

\* a slip stamped more than two days after the clock is not expired
C16_Witness ==
    /\ pc = "doneOld"
    /\ now = ClockAt(1, TimeOfDay(12, 0, 0))
    /\ transDate = DateAt(3)
    /\ transTime = FormatTime(23, 59, 59)
    /\ ret = FALSE

\* a slip stamped decades after the clock passes validateSlip
C16_WitnessValidate ==
    /\ pc = "doneOldValidate"
    /\ transDate = FormatDate(2050, 12, 31)
    /\ IsString(transTime) /\ transTime \notin UnparsableTimes
    /\ outcome.isValid

(***************************************************************************)
(* SpecAccount: validateSlip with every expected account of                *)
(* MaskedAccounts, on slips that pass every other check and whose          *)
(* receiver account is any string of AccountStrings, and, for expected     *)
(* accounts of fewer than three digits, on every result of Results.        *)
(***************************************************************************)
DigitCount(str) == Cardinality({i \in 1..Len(str) : str[i] \in Digits})

FewDigitAccounts ==
    { <<"1","2">>, <<"X","X","X","X">>, <<"1","-","2">>, <<"X","2","X","4">>, <<>> }

AccountResults ==
    { [valid |-> TRUE, isCached |-> FALSE,
       data |-> [present |-> TRUE, transDate |-> DateAt(2),
                 transTime |-> FormatTime(12, 0, 0),
                 receiver |-> Receiver(Account(a)),
                 receivingBank |-> <<"0","1","4">>]] : a \in AccountStrings }

\* expected accounts of one digit value, masks and separators
MaskedAccounts == StringsUpTo({"1", "X", "-"}, MaxAccountLen) \cup ExampleAccounts

InitAccount ==
    /\ pc = "validateSlip"
    /\ \/ result \in AccountResults /\ expectedAccount \in MaskedAccounts
       \/ result \in Results /\ expectedAccount \in FewDigitAccounts
    /\ expectedBank = <<"0","1","4">>
    /\ expectedAmount = None
    /\ now = ClockAt(2, TimeOfDay(12, 0, 1))
    /\ timeZone = FixedOffset
    /\ outcome = None
    /\ imageData = None /\ payload = None /\ sent = <<>> /\ log = <<>>
    /\ promise = NoPromise /\ response = NoResponse /\ actualAccount = None
    /\ transDate = None /\ transTime = None /\ ret = None

NextAccount == CallValidateSlip

SpecAccount == InitAccount /\ [][NextAccount]_vars

(***************************************************************************)
(* C15.  An expected account with fewer than 3 decimal digits matches no   *)
(* actual account, not even the same string: validateSlip with such an     *)
(* expectedAccount never returns isValid = true, and a slip that passes    *)
(* validity, replay and freshness and names a receiver account is refused  *)
(* with "Invalid account number".                                          *)
(***************************************************************************)
C15_FewDigitsNeverMatch ==
    (pc = "doneValidate" /\ DigitCount(expectedAccount) < 3) =>
        /\ ~(~outcome.threw /\ outcome.isValid)
        /\ (result \in AccountResults) =>
               (~outcome.threw /\ outcome.error = "Invalid account number")

\* a half-masked expected account against the very same string
C15_Witness ==
    /\ pc = "doneValidate"
    /\ expectedAccount = <<"X","X","1","1">>
    /\ result \in AccountResults
    /\ result.data.receiver.account.value = <<"X","X","1","1">>
    /\ outcome.error = "Invalid account number"

(***************************************************************************)
(* SlipVerifySDK.readQRCode.  An image input is [kind, size, qr]: raw      *)
(* bytes, a bare base64 string or a data URL, of size bytes or base64      *)
(* characters, and qr is what the symbol decoder decodeQR does with its    *)
(* pixels: it returns a text, returns nothing, or raises.  The answer is   *)
(* [ok, payload, reason, decoder]: decoder lists the calls of decodeQR.    *)
(***************************************************************************)
\* Buffer.from(base64Data, "base64").length for n unpadded base64 characters
Base64Bytes(n) == (n * 6) \div 8

\* imageArray.length (lines 263-282)
ImageBytes(image) ==
    IF image.kind = "bytes" THEN image.size ELSE Base64Bytes(image.size)

\* Number.isInteger(Math.sqrt(n / 4))
HasIntegerWidth(n) == \E w \in 0..n : 4 * w * w = n

WidthOf(n) == CHOOSE w \in 0..n : 4 * w * w = n

ReadFailed(message, calls) ==
    [ok |-> FALSE, payload |-> None,
     reason |-> <<"Failed to read QR code: ", message>>, decoder |-> calls]

\* readQRCode giving back whatever the decoder returned, a missing payload too
readQRCodeUnchecked(image) ==
    LET n == ImageBytes(image)
    IN  IF ~HasIntegerWidth(n)
        THEN ReadFailed("The image dimensions could not be determined. Please provide a valid image.",
                        <<>>)
        ELSE [ok |-> TRUE,
              payload |-> IF image.qr.kind = "text" THEN image.qr.text ELSE <<>>,
              reason |-> <<>>,
              decoder |-> <<[width |-> WidthOf(n), height |-> WidthOf(n), bytes |-> n]>>]

\* readQRCode rounding the width down instead of refusing the buffer
readQRCodeFloorWidth(image) ==
    LET n    == ImageBytes(image)
        w    == CHOOSE v \in 0..n : 4 * v * v <= n /\ 4 * (v + 1) * (v + 1) > n
        call == <<[width |-> w, height |-> w, bytes |-> n]>>
    IN  IF image.qr.kind = "throws"
        THEN ReadFailed("decoder error", call)
        ELSE IF image.qr.kind = "nothing" \/ image.qr.text = <<>>
        THEN ReadFailed("No QR code found in the image", call)
        ELSE [ok |-> TRUE, payload |-> image.qr.text, reason |-> <<>>, decoder |-> call]

readQRCode(image) ==
    LET n    == ImageBytes(image)
        call == <<[width |-> WidthOf(n), height |-> WidthOf(n), bytes |-> n]>>
    IN  IF ~HasIntegerWidth(n)
        THEN ReadFailed("The image dimensions could not be determined. Please provide a valid image.",
                        <<>>)
        ELSE IF image.qr.kind = "throws"
        THEN ReadFailed("decoder error", call)
        ELSE IF image.qr.kind = "nothing" \/ image.qr.text = <<>>
        THEN ReadFailed("No QR code found in the image", call)
        ELSE [ok |-> TRUE, payload |-> image.qr.text, reason |-> <<>>, decoder |-> call]

(***************************************************************************)
(* SlipVerifySDK.inquiry.  The answer of apiClient.post is a response      *)
(* [kind, hasValid, r]: kind "resolved" with a JSON body that has a valid  *)
(* field or not (r holds the body's fields), "empty" for a resolved        *)
(* response without body, "failed" for an axios error (no connection,      *)
(* timeout, status outside 2xx).  A promise is [state, value, reason].     *)
(***************************************************************************)
\* line 326 read as "response.data.valid is true"
inquiryAcceptsTruthy(answer) ==
    answer.kind = "resolved" /\ answer.hasValid /\ answer.r.valid

\* line 326: response.data && response.data.valid !== undefined
inquiryAccepts(answer) == answer.kind = "resolved" /\ answer.hasValid

\* lines 326-336: what inquiry settles with once post has answered
inquirySettle(answer) ==
    IF answer.kind = "failed"
    THEN Rejected(<<"API request failed: ", "axios error">>)
    ELSE IF inquiryAccepts(answer)
    THEN Fulfilled(answer.r)
    ELSE Rejected(<<"Invalid response from API">>)

(***************************************************************************)
(* Spec: one caller using a SlipVerifySDK, one entry-point call at a time: *)
(* verifySlip or verifySlipFromImage, the remote answer, then validateSlip *)
(* on the result obtained.                                                 *)
(***************************************************************************)
DocumentedPayload ==
    <<"0","0","3","8","0","0","0","6","0","0","0","0","0","1","0","1",
      "0","3","0","0","6","0","2","1","7","B","f","8","7","0","b","f",
      "2","6","6","8","5","f","5","5","5","2","6","2","0","3","T","H",
      "9","1","0","4","C","F","6","2">>

Payloads == {DocumentedPayload, <<"0","0","0","2","T","H">>}

QRContents ==
    {[kind |-> "text", text |-> p] : p \in Payloads \cup {<<>>}}
        \cup {[kind |-> "nothing", text |-> <<>>], [kind |-> "throws", text |-> <<>>]}

Images ==
    {[kind |-> k, size |-> n, qr |-> q] :
        k \in {"bytes", "base64", "dataurl"}, n \in 0..MaxImageSize, q \in QRContents}

GoodData ==
    [present |-> TRUE, transDate |-> DateAt(2), transTime |-> FormatTime(12, 0, 0),
     receiver |-> Receiver(Account(<<"1","2","3","-","4">>)),
     receivingBank |-> <<"0","1","4">>]

Bodies ==
    { [valid |-> FALSE, isCached |-> FALSE, data |-> NoData],
      [valid |-> FALSE, isCached |-> TRUE, data |-> GoodData],
      [valid |-> TRUE, isCached |-> TRUE, data |-> GoodData],
      [valid |-> TRUE, isCached |-> FALSE, data |-> GoodData],
      [valid |-> TRUE, isCached |-> FALSE, data |-> NoData],
      [valid |-> TRUE, isCached |-> FALSE,
       data |-> [GoodData EXCEPT !.receiver = NoReceiver]],
      [valid |-> TRUE, isCached |-> FALSE,
       data |-> [GoodData EXCEPT !.receiver = Receiver(Account(Null))]] }

Responses ==
    {[kind |-> "resolved", hasValid |-> h, r |-> b] : h \in BOOLEAN, b \in Bodies}
        \cup {[kind |-> k, hasValid |-> FALSE,
               r |-> [valid |-> FALSE, isCached |-> FALSE, data |-> NoData]] :
                  k \in {"empty", "failed"}}

Init ==
    /\ pc = "idle"
    /\ sent = <<>>
    /\ log = <<>>
    /\ imageData = None /\ payload = None /\ promise = NoPromise
    /\ response = NoResponse
    /\ result = None /\ expectedAccount = None /\ expectedBank = None /\ expectedAmount = None /\ now = 0
    /\ timeZone = FixedOffset
    /\ outcome = None /\ actualAccount = None /\ transDate = None
    /\ transTime = None /\ ret = None

\* verifySlip(p): inquiry(p) posts the payload and awaits the answer
VerifySlip ==
    /\ pc = "idle"
    /\ Len(log) < MaxCalls
    /\ \E p \in Payloads :
          /\ payload' = p
          /\ sent' = Append(sent, p)
    /\ promise' = [op |-> "verifySlip", settled |-> Pending]
    /\ pc' = "awaitPost"
    /\ UNCHANGED <<imageData, log, response, result, expectedAccount, expectedBank, expectedAmount,
                   now, timeZone, outcome, actualAccount, transDate, transTime, ret>>

\* verifySlipFromImage(image): readQRCode, then inquiry of what it decoded
VerifySlipFromImage ==
    /\ pc = "idle"
    /\ Len(log) < MaxCalls
    /\ \E image \in Images :
          LET read == readQRCode(image)
          IN  /\ imageData' = image
              /\ IF read.ok
                 THEN /\ payload' = read.payload
                      /\ sent' = Append(sent, read.payload)
                      /\ promise' = [op |-> "verifySlipFromImage", settled |-> Pending]
                      /\ pc' = "awaitPost"
                 ELSE /\ payload' = None
                      /\ sent' = sent
                      /\ promise' = [op |-> "verifySlipFromImage",
                                     settled |-> Rejected(read.reason)]
                      /\ pc' = "settled"
    /\ UNCHANGED <<log, response, result, expectedAccount, expectedBank, expectedAmount,
                   now, timeZone, outcome, actualAccount, transDate, transTime, ret>>

\* inquiry posting the payload again when the request fails
PostAnswersRetrying ==
    /\ pc = "awaitPost"
    /\ \E answer \in Responses :
          /\ response' = answer
          /\ IF answer.kind = "failed"
             THEN sent' = Append(sent, payload) /\ UNCHANGED <<promise, pc>>
             ELSE /\ promise' = [promise EXCEPT !.settled = inquirySettle(answer)]
                  /\ pc' = "settled"
                  /\ sent' = sent
    /\ UNCHANGED <<imageData, payload, log, result, expectedAccount,
                   expectedBank, expectedAmount, now, timeZone, outcome, actualAccount, transDate, transTime, ret>>

\* apiClient.post settles and inquiry runs to its end
PostAnswers ==
    /\ pc = "awaitPost"
    /\ \E answer \in Responses :
          /\ response' = answer
          /\ promise' = [promise EXCEPT !.settled = inquirySettle(answer)]
    /\ pc' = "settled"
    /\ UNCHANGED <<imageData, payload, sent, log, result, expectedAccount,
                   expectedBank, expectedAmount, now, timeZone, outcome, actualAccount, transDate, transTime, ret>>

\* the caller hands the result it obtained to BankSlipValidator.validateSlip
CallerValidates ==
    /\ pc = "settled"
    /\ promise.settled.state = "fulfilled"
    /\ \E expected \in {<<"1","2","3","4">>}, bank \in ExpectedBanks,
          clock \in {ClockAt(2, TimeOfDay(12, 0, 1))} :
          /\ result' = promise.settled.value
          /\ expectedAccount' = expected
          /\ expectedBank' = bank
          /\ now' = clock
          /\ outcome' = validateSlip(promise.settled.value, expected, bank,
                                  Clock(clock, timeZone))
    /\ pc' = "validated"
    /\ UNCHANGED <<imageData, payload, sent, log, promise, response, timeZone,
                   expectedAmount, actualAccount, transDate, transTime, ret>>

\* the call is over: the caller keeps what it asked for and how it ended
CallEnds ==
    /\ pc \in {"settled", "validated"}
    /\ log' = Append(log, [op |-> promise.op, payload |-> payload,
                           state |-> promise.settled.state])
    /\ pc' = "idle"
    /\ imageData' = None /\ payload' = None /\ promise' = NoPromise
    /\ response' = NoResponse
    /\ result' = None /\ expectedAccount' = None /\ expectedBank' = None /\ expectedAmount' = None /\ now' = 0
    /\ outcome' = None
    /\ UNCHANGED <<sent, timeZone, actualAccount, transDate, transTime, ret>>

Next ==
    \/ VerifySlip
    \/ VerifySlipFromImage
    \/ PostAnswers
    \/ CallerValidates
    \/ CallEnds

Spec == Init /\ [][Next]_vars

(***************************************************************************)
(* C7.  Acceptance gate of inquiry: once post has resolved, inquiry        *)
(* returns the body, as it is, if and only if the body has a valid field;  *)
(* a body with valid = false is returned as a result, and a body without   *)
(* the field, or no body, makes the call fail with "Invalid response from  *)
(* API".                                                                   *)
(***************************************************************************)
C7_AcceptanceGate ==
    (pc \in {"settled", "validated"} /\ response.kind \in {"resolved", "empty"}) =>
        LET p == promise.settled
        IN  /\ p.state = "fulfilled" <=> (response.kind = "resolved" /\ response.hasValid)
            /\ p.state = "fulfilled" => p.value = response.r
            /\ p.state # "fulfilled" =>
                   (p.state = "rejected" /\ p.reason = <<"Invalid response from API">>)

\* the service reports an invalid slip: the call succeeds with that report
C7_Witness ==
    /\ pc = "settled"
    /\ response.kind = "resolved"
    /\ response.hasValid
    /\ ~response.r.valid
    /\ promise.settled.state = "fulfilled"
    /\ promise.settled.value = response.r

(***************************************************************************)
(* C8.  Each call of verifySlip(payload) sends exactly one request, with   *)
(* exactly that payload, whether the request succeeds or fails; on success *)
(* it returns the body unmodified, on failure it fails once, with no       *)
(* retry, no result and no validation outcome.                             *)
(***************************************************************************)
RECURSIVE LoggedRequests(_)
LoggedRequests(entries) ==
    IF entries = <<>> THEN <<>>
    ELSE LET e == entries[Len(entries)]
             before == LoggedRequests(SubSeq(entries, 1, Len(entries) - 1))
         IN  IF e.payload = None THEN before ELSE Append(before, e.payload)

C8_OneRequestPerCall ==
    /\ pc = "idle" => sent = LoggedRequests(log)
    /\ \A i \in 1..Len(log) : log[i].op = "verifySlip" => log[i].payload \in Payloads
    /\ (pc # "idle" /\ promise.op = "verifySlip") =>
          /\ payload \in Payloads
          /\ sent = Append(LoggedRequests(log), payload)
          /\ pc = "awaitPost" => promise.settled = Pending
          /\ pc \in {"settled", "validated"} =>
                IF response.kind = "resolved" /\ response.hasValid
                THEN promise.settled = Fulfilled(response.r)
                ELSE /\ promise.settled.state = "rejected"
                     /\ promise.settled.value = None
                     /\ pc # "validated"

\* a second verifySlip whose request failed, after a first one that succeeded
C8_Witness ==
    /\ pc = "settled"
    /\ promise.op = "verifySlip"
    /\ Len(log) = 1
    /\ log[1].op = "verifySlip"
    /\ response.kind = "failed"
    /\ promise.settled.state = "rejected"
    /\ payload = DocumentedPayload
    /\ sent = <<log[1].payload, DocumentedPayload>>

(***************************************************************************)
(* C9.  verifySlipFromImage decodes before it calls the remote client: if  *)
(* readQRCode fails (no integer width, no payload from the symbol decoder, *)
(* or the decoder raises) no request is sent and the call fails with       *)
(* "Failed to read QR code: ...", not with an API error; if decoding       *)
(* succeeds, the decoded string is the payload sent.                       *)
(***************************************************************************)
DecodeFails(image) ==
    \/ ~HasIntegerWidth(ImageBytes(image))
    \/ image.qr.kind # "text"
    \/ image.qr.text = <<>>

C9_DecodeBeforeRemote ==
    (pc # "idle" /\ promise.op = "verifySlipFromImage") =>
        IF DecodeFails(imageData)
        THEN /\ sent = LoggedRequests(log)
             /\ pc = "settled"
             /\ response = NoResponse
             /\ promise.settled.state = "rejected"
             /\ Len(promise.settled.reason) = 2
             /\ promise.settled.reason[1] = "Failed to read QR code: "
        ELSE /\ payload = imageData.qr.text
             /\ sent = Append(LoggedRequests(log), imageData.qr.text)

\* a square image in which the decoder finds nothing, after a call that sent a request
C9_Witness ==
    /\ pc = "settled"
    /\ promise.op = "verifySlipFromImage"
    /\ HasIntegerWidth(ImageBytes(imageData))
    /\ ImageBytes(imageData) > 0
    /\ imageData.qr.kind = "nothing"
    /\ Len(log) = 1
    /\ sent = <<log[1].payload>>
    /\ promise.settled.reason = <<"Failed to read QR code: ", "No QR code found in the image">>

\* an image that decodes: the decoded text is what is sent
C9_WitnessDecoded ==
    /\ pc = "awaitPost"
    /\ promise.op = "verifySlipFromImage"
    /\ imageData.kind = "base64"
    /\ payload = DocumentedPayload
    /\ sent = <<DocumentedPayload>>

(***************************************************************************)
(* C10.  A validation failure is a normal return value: for every result   *)
(* the verification client returns, validateSlip returns isValid and, on   *)
(* failure, a reason string, and never raises.                             *)
(***************************************************************************)
C10_ValidationNeverRaises ==
    pc = "validated" =>
        /\ ~outcome.threw
        /\ outcome.isValid \in BOOLEAN
        /\ ~outcome.isValid => outcome.error \in {Reason(k) : k \in 1..5}

(***************************************************************************)
(* QR structural cross-validation (spec.md 4.4; README.md documents it as  *)
(* validatePromptParse and validateSlipWithPromptParse).  Its code is not  *)
(* part of src/src/index.ts, whose validateSlip takes no expectedAmount;   *)
(* the definitions below follow spec.md.                                   *)
(***************************************************************************)
\* the number two decimal digits write; -1 when they are not two digits
TwoDigits(str) ==
    IF Len(str) = 2 /\ str[1] \in Digits /\ str[2] \in Digits
    THEN 10 * DigitValue(str[1]) + DigitValue(str[2])
    ELSE -1

\* parsing that takes what is left as the value when fewer than L characters remain
RECURSIVE parseTagsFromShortValue(_, _)
parseTagsFromShortValue(str, cursor) ==
    IF Len(str) - cursor + 1 < 4
    THEN <<>>
    ELSE LET tag == SubSeq(str, cursor, cursor + 1)
             L   == TwoDigits(SubSeq(str, cursor + 2, cursor + 3))
             end == IF cursor + 3 + L > Len(str) THEN Len(str) ELSE cursor + 3 + L
         IN  IF TwoDigits(tag) < 0 \/ L < 0
             THEN <<>>
             ELSE <<[tag |-> tag, value |-> SubSeq(str, cursor + 4, end)]>>
                      \o parseTagsFromShortValue(str, cursor + 4 + L)

\* spec.md 4.4: read a 2-digit tag id, a 2-digit decimal length L, then
\* exactly L characters of value, from the cursor (1-based) on; stop, keeping
\* what was parsed, when no complete field is left
RECURSIVE parseTagsFrom(_, _)
parseTagsFrom(str, cursor) ==
    IF Len(str) - cursor + 1 < 4
    THEN <<>>
    ELSE LET tag == SubSeq(str, cursor, cursor + 1)
             L   == TwoDigits(SubSeq(str, cursor + 2, cursor + 3))
         IN  IF TwoDigits(tag) < 0 \/ L < 0 \/ Len(str) - cursor - 3 < L
             THEN <<>>
             ELSE <<[tag |-> tag, value |-> SubSeq(str, cursor + 4, cursor + 3 + L)]>>
                      \o parseTagsFrom(str, cursor + 4 + L)

parseTags(pl) == parseTagsFrom(pl, 1)

\* the values of the fields with this tag, in order
ValuesOf(tags, id) ==
    LET at == {i \in 1..Len(tags) : tags[i].tag = id}
    IN  {tags[i].value : i \in at}

HasTag(tags, id) == ValuesOf(tags, id) # {}

FirstValue(tags, id) ==
    tags[CHOOSE i \in 1..Len(tags) :
            tags[i].tag = id /\ \A j \in 1..(i - 1) : tags[j].tag # id].value

\* a decimal string without the zeros that do not change its number:
\* <<integer digits, fraction digits>>, or None when it is no decimal string
RECURSIVE StripLeadingZeros(_)
StripLeadingZeros(str) ==
    IF Len(str) > 1 /\ str[1] = "0" THEN StripLeadingZeros(Tail(str)) ELSE str

RECURSIVE StripTrailingZeros(_)
StripTrailingZeros(str) ==
    IF Len(str) > 0 /\ str[Len(str)] = "0"
    THEN StripTrailingZeros(SubSeq(str, 1, Len(str) - 1))
    ELSE str

NormalizeAmount(str) ==
    LET dots == {i \in 1..Len(str) : str[i] = "."}
        int  == IF dots = {} THEN str
                ELSE SubSeq(str, 1, (CHOOSE i \in dots : TRUE) - 1)
        frac == IF dots = {} THEN <<>>
                ELSE SubSeq(str, (CHOOSE i \in dots : TRUE) + 1, Len(str))
    IN  IF \/ Cardinality(dots) > 1
           \/ int = <<>>
           \/ \E i \in 1..Len(int) : int[i] \notin Digits
           \/ \E i \in 1..Len(frac) : frac[i] \notin Digits
        THEN None
        ELSE <<StripLeadingZeros(int), StripTrailingZeros(frac)>>

AmountEquals(a, b) ==
    /\ NormalizeAmount(a) # None
    /\ NormalizeAmount(a) = NormalizeAmount(b)

Outcome(ok, err) == [threw |-> FALSE, isValid |-> ok, error |-> err]

\* tag 30, sub-tag 01, corroborates expectedAccount by the fuzzy match
crossValidateAccount(tags, expected) ==
    IF ~HasTag(tags, <<"3","0">>)
    THEN Outcome(FALSE, "Invalid account number")
    ELSE LET sub == parseTags(FirstValue(tags, <<"3","0">>))
         IN  IF /\ HasTag(sub, <<"0","1">>)
                /\ checkBankAccount(expected, FirstValue(sub, <<"0","1">>))
             THEN Outcome(TRUE, NoError)
             ELSE Outcome(FALSE, "Invalid account number")

\* cross-validation that skips the amount when the payload has no tag 54
crossValidateSkipsMissingAmount(pl, expected, amount) ==
    LET tags == parseTags(pl)
    IN  IF /\ amount # None
           /\ HasTag(tags, <<"5","4">>)
           /\ ~AmountEquals(FirstValue(tags, <<"5","4">>), amount)
        THEN Outcome(FALSE, "Amount mismatch")
        ELSE crossValidateAccount(tags, expected)

\* spec.md 4.4 and 8: with expectedAmount supplied, a payload without
\* tag 54, or with another amount in it, fails with "amount mismatch"
\* whatever else it holds; the account of tag 30 is corroborated behind it
crossValidate(pl, expected, amount) ==
    LET tags == parseTags(pl)
    IN  IF /\ amount # None
           /\ \/ ~HasTag(tags, <<"5","4">>)
              \/ ~AmountEquals(FirstValue(tags, <<"5","4">>), amount)
        THEN Outcome(FALSE, "Amount mismatch")
        ELSE crossValidateAccount(tags, expected)

\* spec.md 4.4: the chain of 4.3 first, this stage only when it succeeded
validateSlipWithPromptParse(r, pl, expected, bank, amount, clock) ==
    LET basic == validateSlip(r, expected, bank, clock)
    IN  IF basic.threw \/ ~basic.isValid
        THEN [threw |-> basic.threw, isValid |-> FALSE, error |-> basic.error]
        ELSE crossValidate(pl, expected, amount)

(***************************************************************************)
(* SpecCross: crossValidate, alone and behind validateSlip, applied to     *)
(* payloads put together from tagged fields (an account template, amounts, *)
(* another field), with and without an unfinished field at the end.        *)
(***************************************************************************)
Field(tag, value) == tag \o Pad2(Len(value)) \o value

AccountTemplate(acc) ==
    Field(<<"3","0">>, Field(<<"0","0">>, <<"A","0">>) \o Field(<<"0","1">>, acc))

TagAmounts ==
    { <<"1","0","0">>, <<"1","0","0",".","0","0">>, <<"1","0","0",".","5">>, <<"9","9">> }

ExpectedAmounts ==
    { None, <<"1","0","0">>, <<"1","0","0",".","0","0">>, <<"1","0","0",".","5","0">> }

PayloadFields ==
    { AccountTemplate(<<"1","2","3","4">>),
      AccountTemplate(<<"9","9","9","9">>),
      Field(<<"3","0">>, Field(<<"0","2">>, <<"1","2">>)),
      Field(<<"5","3">>, <<"7","6","4">>) }
        \cup {Field(<<"5","4">>, a) : a \in TagAmounts}

RECURSIVE FieldsUpTo(_)
FieldsUpTo(n) ==
    IF n = 0 THEN {<<>>}
    ELSE FieldsUpTo(n - 1) \cup {p \o f : p \in FieldsUpTo(n - 1), f \in PayloadFields}

\* nothing, a tag 54 cut off inside its value, a tag cut off inside its header
Trailers == { <<>>, <<"5","4","0","6","1","0","0">>, <<"5","4">> }

CrossPayloads == {p \o t : p \in FieldsUpTo(MaxFields), t \in Trailers}

CrossResults ==
    { [valid |-> TRUE, isCached |-> FALSE, data |-> GoodData],
      [valid |-> TRUE, isCached |-> TRUE, data |-> GoodData],
      [valid |-> FALSE, isCached |-> FALSE, data |-> NoData] }

InitCross ==
    /\ pc = "crossValidate"
    /\ payload \in CrossPayloads
    /\ result \in CrossResults
    /\ expectedAccount \in { <<"1","2","3","4">>, <<"9","9","9","9">> }
    /\ expectedBank = <<"0","1","4">>
    /\ expectedAmount \in ExpectedAmounts
    /\ now = ClockAt(2, TimeOfDay(12, 0, 1))
    /\ timeZone = FixedOffset
    /\ outcome = None
    /\ imageData = None /\ sent = <<>> /\ log = <<>>
    /\ promise = NoPromise /\ response = NoResponse /\ actualAccount = None
    /\ transDate = None /\ transTime = None /\ ret = None

CallCrossValidate ==
    /\ pc = "crossValidate"
    /\ outcome' = crossValidate(payload, expectedAccount, expectedAmount)
    /\ pc' = "doneCross"
    /\ UNCHANGED <<imageData, payload, sent, log, promise, response, result,
                   expectedAccount, expectedBank, expectedAmount, now, timeZone,
                   actualAccount, transDate, transTime, ret>>

CallValidateSlipWithPromptParse ==
    /\ pc = "crossValidate"
    /\ outcome' = validateSlipWithPromptParse(result, payload, expectedAccount,
                      expectedBank, expectedAmount, Clock(now, timeZone))
    /\ pc' = "doneValidateCross"
    /\ UNCHANGED <<imageData, payload, sent, log, promise, response, result,
                   expectedAccount, expectedBank, expectedAmount, now, timeZone,
                   actualAccount, transDate, transTime, ret>>

NextCross ==
    \/ CallCrossValidate
    \/ CallValidateSlipWithPromptParse

SpecCross == InitCross /\ [][NextCross]_vars

\* the amounts tried, in hundredths, written out one by one
AmountInHundredths(str) ==
    CASE str = <<"1","0","0">> -> 10000
      [] str = <<"1","0","0",".","0","0">> -> 10000
      [] str = <<"1","0","0",".","5">> -> 10050
      [] str = <<"1","0","0",".","5","0">> -> 10050
      [] str = <<"9","9">> -> 9900

C11_WitnessMissing ==
    /\ pc = "doneCross"
    /\ expectedAmount = <<"1","0","0">>
    /\ payload = AccountTemplate(<<"1","2","3","4">>) \o <<"5","4","0","6","1","0","0">>
    /\ outcome = Outcome(FALSE, "Amount mismatch")

(***************************************************************************)
(* SpecParse: parseTags applied to every string over a few characters      *)
(* (digits that make tags and lengths, a letter) up to MaxPayloadLen, to   *)
(* the payloads of SpecCross and to the documented payload.                *)
(***************************************************************************)
TagAlphabet == {"0", "1", "A"}

ParsePayloads ==
    StringsUpTo(TagAlphabet, MaxPayloadLen) \cup CrossPayloads \cup {DocumentedPayload}

InitParse ==
    /\ pc = "parseTags"
    /\ payload \in ParsePayloads
    /\ ret = None
    /\ imageData = None /\ sent = <<>> /\ log = <<>>
    /\ promise = NoPromise /\ response = NoResponse /\ result = None
    /\ expectedAccount = None /\ expectedBank = None /\ expectedAmount = None
    /\ now = 0 /\ timeZone = FixedOffset /\ outcome = None
    /\ actualAccount = None /\ transDate = None /\ transTime = None

CallParseTags ==
    /\ pc = "parseTags"
    /\ ret' = parseTags(payload)
    /\ pc' = "doneParse"
    /\ UNCHANGED <<imageData, payload, sent, log, promise, response, result,
                   expectedAccount, expectedBank, expectedAmount, now, timeZone,
                   outcome, actualAccount, transDate, transTime>>

NextParse == CallParseTags

SpecParse == InitParse /\ [][NextParse]_vars

\* tag + two-digit zero-padded length + value of every entry, in order
RECURSIVE Reconstruct(_)
Reconstruct(tags) ==
    IF tags = <<>> THEN <<>>
    ELSE tags[1].tag \o Pad2(Len(tags[1].value)) \o tags[1].value
             \o Reconstruct(Tail(tags))

IsPrefix(p, str) == Len(p) <= Len(str) /\ SubSeq(str, 1, Len(p)) = p

\* no complete field starts right after the first n characters of str
NoFieldAfter(str, n) ==
    \/ Len(str) - n < 4
    \/ \E i \in 1..4 : str[n + i] \notin Digits
    \/ 10 * DigitValue(str[n + 3]) + DigitValue(str[n + 4]) > Len(str) - n - 4

C12_WitnessDocumented ==
    /\ pc = "doneParse"
    /\ payload = DocumentedPayload
    /\ Len(ret) = 2
    /\ ret[1].tag = <<"0","0">> /\ Len(ret[1].value) = 38
    /\ ret[2] = [tag |-> <<"6","2">>, value |-> <<"T","H","9">>]

(***************************************************************************)
(* SpecRead: readQRCode applied to every image input of Images.            *)
(***************************************************************************)
InitRead ==
    /\ pc = "readQRCode"
    /\ imageData \in Images
    /\ ret = None
    /\ payload = None /\ sent = <<>> /\ log = <<>>
    /\ promise = NoPromise /\ response = NoResponse /\ result = None
    /\ expectedAccount = None /\ expectedBank = None /\ expectedAmount = None
    /\ now = 0 /\ timeZone = FixedOffset /\ outcome = None
    /\ actualAccount = None /\ transDate = None /\ transTime = None

CallReadQRCode ==
    /\ pc = "readQRCode"
    /\ ret' = readQRCode(imageData)
    /\ pc' = "doneRead"
    /\ UNCHANGED <<imageData, payload, sent, log, promise, response, result,
                   expectedAccount, expectedBank, expectedAmount, now, timeZone,
                   outcome, actualAccount, transDate, transTime>>

NextRead == CallReadQRCode

SpecRead == InitRead /\ [][NextRead]_vars

\* the length of the buffer readQRCode works on: the bytes given, or those
\* that the base64 characters of a string decode to (three for every four)
BufferLength(image) ==
    IF image.kind = "bytes" THEN image.size
    ELSE 3 * (image.size \div 4)
             + (IF image.size % 4 = 0 THEN 0 ELSE (image.size % 4) - 1)

(***************************************************************************)
(* C13.  Image dimension derivation: readQRCode calls the symbol decoder   *)
(* only when the length n of the buffer is 4*w*w for an integer w, then    *)
(* once, with width = height = w and the n bytes of the buffer; for every  *)
(* other length it fails with "Failed to read QR code: ..." and the        *)
(* decoder is not called.                                                  *)
(***************************************************************************)
C13_ImageDimensions ==
    pc = "doneRead" =>
        LET n == BufferLength(imageData)
            squares == {w \in 0..n : n = 4 * w * w}
        IN  IF squares = {}
            THEN /\ ret.decoder = <<>>
                 /\ ~ret.ok
                 /\ Len(ret.reason) = 2
                 /\ ret.reason[1] = "Failed to read QR code: "
            ELSE \E w \in squares :
                    ret.decoder = <<[width |-> w, height |-> w, bytes |-> n]>>

\* 16 bytes: a 2 x 2 image is handed to the decoder, which finds the payload
C13_Witness ==
    /\ pc = "doneRead"
    /\ imageData.kind = "bytes"
    /\ imageData.size = 16
    /\ ret.ok
    /\ ret.payload = DocumentedPayload
    /\ ret.decoder = <<[width |-> 2, height |-> 2, bytes |-> 16]>>

\* 12 bytes: no integer width, the decoder is not called
C13_WitnessRefused ==
    /\ pc = "doneRead"
    /\ imageData.kind = "bytes"
    /\ imageData.size = 12
    /\ imageData.qr.kind = "text"
    /\ ~ret.ok
    /\ ret.decoder = <<>>

====
